---- MODULE Spec2Model ----
(***************************************************************************)
(* Monte Carlo Tree Search of mcts_vanilla.py (confidence-bound selection) *)
(* and mcts_modified.py (visit-proportional roulette selection).           *)
(*                                                                         *)
(* think() is modelled statement by statement: pc is the position inside   *)
(* think and the functions it calls, tree is the arena of MCTSNode objects *)
(* (index 1 is root_node), and the random draws of choice() and random()   *)
(* are nondeterministic choices.  The Board is a small counting game whose *)
(* contract violations (legal actions on an ended state, no legal action   *)
(* on a running state) are switched on by the fields of board.             *)
(***************************************************************************)
EXTENDS Integers, Sequences, FiniteSets, TLC

VARIABLES
    board,          \* the Board: which contract violations it shows
    variant,        \* "vanilla" (mcts_vanilla.py) or "modified" (mcts_modified.py)
    num_nodes,      \* the iteration budget (module global num_nodes)
    current_state,  \* think's argument
    bot_identity,   \* think: board.current_player(current_state)
    tree,           \* the MCTSNode objects, in order of construction; tree[1] is root_node
    iter,           \* number of iterations of think's for loop started so far
    node,           \* the local `node` of think / traverse_nodes / backpropagate
    state,          \* the local `state` (after rollout: result_state)
    won,            \* the local `won`
    best_action,    \* think's return value
    pc,             \* position in think
    error,          \* the exception that ended think, "" when none
    rollouts,       \* number of calls of rollout so far
    bp_node,        \* the node backpropagate was last called with
    bp_tree,        \* the tree as it was when backpropagate was last called
    run,            \* 0: think is called once; 1, 2: the first and the second of
                    \* two calls with the same arguments and the same random draws
    draws,          \* the values choice() and random() returned to the first call
    drawn,          \* how many random draws the current call has made
    first           \* what the first call ended with, <<>> before

vars == <<board, variant, num_nodes, current_state, bot_identity, tree, iter,
          node, state, won, best_action, pc, error, rollouts, bp_node, bp_tree,
          run, draws, drawn, first>>

-----------------------------------------------------------------------------
(* Bounds of the model *)

\* largest iteration budget explored (the source sets num_nodes to 100 / 1000)
MaxBudget == 5

\* the counting game ends when the running total reaches Target
Target == 3

\* largest visit count of a child in the trees traverse_nodes is applied to
\* on its own (TraverseSpec)
MaxVisits == 2

\* the iteration budget of think on the board with four actions (WideSpec)
WideBudget == 8

\* largest iteration budget of the two calls of think with the same random
\* draws (TwinSpec)
TwinBudget == 3

-----------------------------------------------------------------------------
(* Python's None, for a node reference and for an action *)
None == 0

(***************************************************************************)
(* The Board (p2_t3.Board, an external collaborator): a counting game.     *)
(* Players alternately add a small number to a running total.  It is over  *)
(* when the total is at least Target; the player who moved last wins when  *)
(* the total is exactly Target, otherwise the game is drawn.  A board      *)
(* allows the additions 1..width (at the total narrowAt only 1).           *)
(***************************************************************************)
Players == {1, 2}

States == [total : 0..(Target + 1), player : Players]

\* the boards think is run on
Boards ==
    { \* keeps the contract
      [width |-> 2, legalAtEnd |-> FALSE, emptyAt |-> -1, narrowAt |-> -1],
      \* keeps the contract; at total 0 only the addition 1 is legal
      [width |-> 2, legalAtEnd |-> FALSE, emptyAt |-> -1, narrowAt |-> 0],
      \* legal actions on ended states
      [width |-> 2, legalAtEnd |-> TRUE,  emptyAt |-> -1, narrowAt |-> -1],
      \* no legal action at total 2
      [width |-> 2, legalAtEnd |-> FALSE, emptyAt |-> 2,  narrowAt |-> -1] }

all_actions(b) == [a \in 1..b.width |-> a]

is_ended(s) == s.total >= Target

legal_actions(b, s) ==
    IF is_ended(s)
    THEN IF b.legalAtEnd THEN all_actions(b) ELSE <<>>
    ELSE IF s.total = b.emptyAt THEN <<>>
         ELSE IF s.total = b.narrowAt THEN <<1>>
         ELSE all_actions(b)

next_state(s, a) == [total |-> s.total + a, player |-> 3 - s.player]

current_player(s) == s.player

\* defined only on ended states: None otherwise
points_values(s) ==
    IF ~is_ended(s) THEN <<>>
    ELSE IF s.total = Target
         THEN [p \in Players |-> IF p = 3 - s.player THEN 1 ELSE -1]
         ELSE [p \in Players |-> 0]

-----------------------------------------------------------------------------
(* MCTSNode (mcts_node.py) *)

MCTSNode(parent, parent_action, action_list) ==
    [ parent          |-> parent,
      parent_action   |-> parent_action,
      child_nodes     |-> <<>>,      \* dict in insertion order: <<action, node>> pairs
      untried_actions |-> action_list,
      wins            |-> 0,
      visits          |-> 0 ]

root_node == 1

\* the values of a node's child_nodes dict, in insertion order
Children(t, n) == [i \in 1..Len(t[n].child_nodes) |-> t[n].child_nodes[i][2]]

\* the keys of a node's child_nodes dict, in insertion order
Keys(t, n) == [i \in 1..Len(t[n].child_nodes) |-> t[n].child_nodes[i][1]]

Range(s) == {s[i] : i \in 1..Len(s)}

\* dict[key] = value: replaces the value of an existing key in place, else appends
DictSet(d, key, value) ==
    IF \E i \in 1..Len(d) : d[i][1] = key
    THEN [i \in 1..Len(d) |-> IF d[i][1] = key THEN <<key, value>> ELSE d[i]]
    ELSE Append(d, <<key, value>>)

\* list.remove(x): removes the first occurrence
ListRemove(l, x) ==
    LET i == CHOOSE j \in 1..Len(l) : l[j] = x /\ \A k \in 1..(j - 1) : l[k] # x
    IN  SubSeq(l, 1, i - 1) \o SubSeq(l, i + 1, Len(l))

-----------------------------------------------------------------------------
(***************************************************************************)
(* Python floats of roulette_wheel_selection.  A float in [0, 2) is kept   *)
(* exactly, as its first 64 binary digits (the first has weight 1, the     *)
(* next 1/2, ...) in four limbs of 16 digits, most significant first.      *)
(* Division and addition round to nearest, ties to even, at MantissaBits   *)
(* significant digits, as IEEE 754 binary64 does.  The quotients are those *)
(* of visit counts below 2^10, so a nonzero float is at least 2^-10: its   *)
(* leading digit is in the first limb and its last significant digit in    *)
(* the fourth.                                                             *)
(***************************************************************************)
MantissaBits == 53

Limb == 2 ^ 16

Zero == <<0, 0, 0, 0>>

\* n / d before rounding, 0 <= n <= d, 0 < d < 2^10: the first 64 digits by long
\* division, and whether anything is left over
DivDigits(n, d) ==
    LET a  == (n * (2 ^ 15)) \div d
        ra == (n * (2 ^ 15)) % d
        b  == (ra * Limb) \div d
        rb == (ra * Limb) % d
        c  == (rb * Limb) \div d
        rc == (rb * Limb) % d
        e  == (rc * Limb) \div d
        re == (rc * Limb) % d
    IN  [digits |-> <<a, b, c, e>>, sticky |-> re # 0]

\* the exact sum of two floats (below 2), limb by limb with the carries
AddDigits(x, y) ==
    LET s4 == x[4] + y[4]
        s3 == x[3] + y[3] + (s4 \div Limb)
        s2 == x[2] + y[2] + (s3 \div Limb)
        s1 == x[1] + y[1] + (s2 \div Limb)
    IN  <<s1 % Limb, s2 % Limb, s3 % Limb, s4 % Limb>>

\* the position (1 = weight 1, 2 = weight 1/2, ...) of the leading digit of a
\* float whose first limb is not 0
LeadPos(x) == 16 - (CHOOSE k \in 0..15 : 2 ^ k <= x[1] /\ x[1] < 2 ^ (k + 1))

\* round to nearest, ties to even, at MantissaBits significant digits; sticky
\* says that digits beyond the 64th are not all 0
RoundNearestEven(x, sticky) ==
    IF x = Zero THEN x
    ELSE LET dropped == 64 - (LeadPos(x) + MantissaBits - 1)  \* digits of limb 4 to drop
             low  == x[4] % (2 ^ dropped)
             half == 2 ^ (dropped - 1)
             kept == <<x[1], x[2], x[3], x[4] - low>>
             odd  == (x[4] \div (2 ^ dropped)) % 2 = 1
             up   == low > half \/ (low = half /\ (sticky \/ odd))
         IN  IF up THEN AddDigits(kept, <<0, 0, 0, 2 ^ dropped>>) ELSE kept

\* n / d of two ints, 0 <= n <= d, 0 < d < 2^10 (Python true division)
FloatDiv(n, d) ==
    LET q == DivDigits(n, d)
    IN  RoundNearestEven(q.digits, q.sticky)

\* x + y of two floats
FloatAdd(x, y) == RoundNearestEven(AddDigits(x, y), FALSE)

\* x >= y
FloatGeq(x, y) ==
    \/ x = y
    \/ \E i \in 1..4 : x[i] > y[i] /\ \A j \in 1..(i - 1) : x[j] = y[j]

\* random(): a multiple of 2^-MantissaBits in [0, 1); here the largest one that
\* is at most n/d, 0 <= n < d
RandomAt(n, d) ==
    LET q == DivDigits(n, d).digits
    IN  <<q[1], q[2], q[3], q[4] - (q[4] % (2 ^ (63 - MantissaBits)))>>

\* the largest value random() returns: 1 - 2^-MantissaBits
RandomMax == <<2 ^ 15 - 1, Limb - 1, Limb - 1, Limb - 2 ^ (63 - MantissaBits)>>

\* the draws of random() explored: 0, 0.05, 0.5, 0.95 and the largest
Thresholds == {RandomAt(0, 20), RandomAt(1, 20), RandomAt(10, 20), RandomAt(19, 20), RandomMax}

\* mcts_modified.roulette_wheel_selection, with the draw of random() as an
\* argument; probabilities is the dict as a sequence of <<action, prob>>.
\* Falls off the end of the loop (returns None) when no cumulative sum
\* reaches the threshold.
RECURSIVE roulette_loop(_, _, _, _)
roulette_loop(probabilities, threshold, i, cumulative_prob) ==
    IF i > Len(probabilities) THEN None
    ELSE LET cum == IF i = 1 THEN probabilities[i][2]
                    ELSE FloatAdd(cumulative_prob, probabilities[i][2])
         IN  IF FloatGeq(cum, threshold) THEN probabilities[i][1]
             ELSE roulette_loop(probabilities, threshold, i + 1, cum)

roulette_wheel_selection(probabilities, threshold) ==
    roulette_loop(probabilities, threshold, 1, Zero)

\* the sum of a sequence of ints
RECURSIVE SumSeq(_)
SumSeq(s) == IF s = <<>> THEN 0 ELSE Head(s) + SumSeq(Tail(s))

\* mcts_modified.traverse_nodes: the probabilities dict of a node's children
Probabilities(t, n) ==
    LET total_visits == SumSeq([i \in 1..Len(t[n].child_nodes) |-> t[Children(t, n)[i]].visits])
    IN  [i \in 1..Len(t[n].child_nodes) |->
            <<Keys(t, n)[i], FloatDiv(t[Children(t, n)[i]].visits, total_visits)>>]

-----------------------------------------------------------------------------
(***************************************************************************)
(* mcts_vanilla.ucb in fixed point.  Scores are in units of 10^-4: the     *)
(* natural logarithm comes from a table in units of 10^-6 and the square   *)
(* root is the integer square root.  For parent visit counts up to 20 and  *)
(* child visit counts up to 7 the order of any two scores (and their       *)
(* equality) is the order of the floats the source computes.               *)
(***************************************************************************)
explore_faction == 2

\* float('inf'): above every finite score
Inf == 1000000000

\* round(10^6 * ln(n)) for n = 1..20
LnMicro == <<0, 693147, 1098612, 1386294, 1609438, 1791759, 1945910,
             2079442, 2197225, 2302585, 2397895, 2484907, 2564949, 2639057,
             2708050, 2772589, 2833213, 2890372, 2944439, 2995732>>

\* the largest r in lo..hi with r * r <= x
RECURSIVE SqrtSearch(_, _, _)
SqrtSearch(x, lo, hi) ==
    IF lo >= hi THEN lo
    ELSE LET mid == (lo + hi + 1) \div 2
         IN  IF mid * mid <= x THEN SqrtSearch(x, mid, hi)
             ELSE SqrtSearch(x, lo, mid - 1)

\* 10^4 * sqrt(ln(parent_visits) / visits)
SqrtLogRatio(parent_visits, visits) ==
    SqrtSearch((LnMicro[parent_visits] * 100) \div visits, 0, 20000)

\* log(0) raises ValueError: ucb(child) raises when the child has been visited
\* and its parent has not
ucb_raises(t, n) == t[n].visits # 0 /\ t[t[n].parent].visits = 0

\* ucb scoring an unvisited node 0
ucb_unvisited_zero(t, n, bot) ==
    IF t[n].visits = 0 THEN 0
    ELSE LET exploitation == (t[n].wins * 10000) \div t[n].visits
             exploration  == explore_faction * SqrtLogRatio(t[t[n].parent].visits, t[n].visits)
         IN  IF bot = 1 THEN exploitation + exploration
             ELSE (-exploitation) + exploration

ucb(t, n, bot) ==
    IF t[n].visits = 0 THEN Inf
    ELSE LET exploitation == (t[n].wins * 10000) \div t[n].visits
             exploration  == explore_faction * SqrtLogRatio(t[t[n].parent].visits, t[n].visits)
         IN  IF bot = 1 THEN exploitation + exploration
             ELSE (-exploitation) + exploration

\* max(seq, key): the index of the first element with the largest key, given
\* the keys of the elements
ArgMax(keys) ==
    CHOOSE i \in 1..Len(keys) :
        /\ \A j \in 1..Len(keys) : keys[i] >= keys[j]
        /\ \A j \in 1..(i - 1) : keys[j] < keys[i]

\* mcts_vanilla.traverse_nodes: the child with the highest UCB value
SelectUcb(t, n, bot) ==
    LET keys == [i \in 1..Len(t[n].child_nodes) |-> ucb(t, Children(t, n)[i], bot)] \o <<>>
    IN  Children(t, n)[ArgMax(keys)]

\* dict[key] for a key of the dict
DictGet(d, key) == d[CHOOSE i \in 1..Len(d) : d[i][1] = key][2]

\* get_best_action choosing by win count
get_best_action_by_wins(t, root) ==
    IF t[root].child_nodes = <<>> THEN None
    ELSE LET keys == [i \in 1..Len(t[root].child_nodes) |-> t[Children(t, root)[i]].wins]
         IN  Keys(t, root)[ArgMax(keys)]

\* get_best_action: None without children, else the first key whose child has
\* the most visits
get_best_action(t, root) ==
    IF t[root].child_nodes = <<>> THEN None
    ELSE LET keys == [i \in 1..Len(t[root].child_nodes) |->
                          t[DictGet(t[root].child_nodes, Keys(t, root)[i])].visits]
         IN  Keys(t, root)[ArgMax(keys)]

\* is_win counting a draw as a win
is_win_or_draw(s, identity_of_bot) == points_values(s)[identity_of_bot] >= 0

\* is_win: whether the ended state is a win for the bot
is_win(s, identity_of_bot) == points_values(s)[identity_of_bot] = 1

\* the condition of traverse_nodes' early return
NothingVisited(t, n) ==
    \/ t[n].child_nodes = <<>>
    \/ \A i \in 1..Len(t[n].child_nodes) : t[Children(t, n)[i]].visits = 0

-----------------------------------------------------------------------------
(* think *)

\* the states think is called with
RootStates == [total : 0..Target, player : Players]

Variants == {"vanilla", "modified"}

\* think is called once: the random draws are free
SingleRun ==
    /\ run = 0
    /\ draws = <<>>
    /\ drawn = 0
    /\ first = <<>>

\* a call of choice() or random() returning d: free in a single call and in
\* the first of two calls, which records it; the second call gets what the
\* first call got at the same position
Draw(d) ==
    CASE run = 0 -> UNCHANGED <<draws, drawn>>
      [] run = 1 -> draws' = Append(draws, d) /\ drawn' = drawn + 1
      [] run = 2 -> /\ drawn < Len(draws)
                    /\ draws[drawn + 1] = d
                    /\ drawn' = drawn + 1
                    /\ UNCHANGED draws

\* think up to the for loop: bot_identity and root_node
Init ==
    /\ board \in Boards
    /\ variant \in Variants
    /\ num_nodes \in 0..MaxBudget
    /\ current_state \in RootStates
    /\ bot_identity = current_player(current_state)
    /\ tree = <<MCTSNode(None, None, legal_actions(board, current_state))>>
    /\ iter = 0
    /\ node = None
    /\ state = current_state
    /\ won = FALSE
    /\ best_action = None
    /\ pc = "loop"
    /\ error = ""
    /\ rollouts = 0
    /\ bp_node = None
    /\ bp_tree = <<>>
    /\ SingleRun

\* an exception leaves think
Raise(e) ==
    /\ pc' = "error"
    /\ error' = e

\* the for loop running once more: range(num_nodes + 1)
LoopHeadOneMore ==
    /\ pc = "loop"
    /\ IF iter <= num_nodes
       THEN /\ iter' = iter + 1
            /\ state' = current_state
            /\ node' = root_node
            /\ pc' = "traverse"
       ELSE /\ pc' = "extract"
            /\ UNCHANGED <<iter, state, node>>
    /\ UNCHANGED <<draws, drawn, run, first, board, variant, num_nodes,
                   current_state, bot_identity, tree,
                   won, best_action, error, rollouts, bp_node, bp_tree>>

\* for _ in range(num_nodes): state = current_state; node = root_node
LoopHead ==
    /\ pc = "loop"
    /\ IF iter < num_nodes
       THEN /\ iter' = iter + 1
            /\ state' = current_state
            /\ node' = root_node
            /\ pc' = "traverse"
       ELSE /\ pc' = "extract"
            /\ UNCHANGED <<iter, state, node>>
    /\ UNCHANGED <<draws, drawn, run, first, board, variant, num_nodes,
                   current_state, bot_identity, tree,
                   won, best_action, error, rollouts, bp_node, bp_tree>>

\* the while condition of traverse_nodes
TraverseContinues == ~is_ended(state) /\ tree[node].untried_actions = <<>>

\* traverse_nodes returns: the loop condition fails, or nothing below node has
\* been visited
TraverseReturn ==
    /\ pc = "traverse"
    /\ ~TraverseContinues \/ NothingVisited(tree, node)
    /\ pc' = "expand"
    /\ UNCHANGED <<draws, drawn, run, first, board, variant, num_nodes,
                   current_state, bot_identity, tree,
                   iter, node, state, won, best_action, error, rollouts,
                   bp_node, bp_tree>>

\* traverse_nodes descending without applying the action to the state
TraverseUcbKeepsState ==
    /\ pc = "traverse"
    /\ variant = "vanilla"
    /\ TraverseContinues /\ ~NothingVisited(tree, node)
    /\ node' = SelectUcb(tree, node, bot_identity)
    /\ UNCHANGED <<draws, drawn, run, first, board, variant, num_nodes, current_state,
                   bot_identity, tree, iter, won, best_action, rollouts, bp_node, bp_tree,
                   state, pc, error>>

\* traverse_nodes descending to any child with the highest UCB value, not to
\* the first of them
TraverseUcbAnyMax ==
    /\ pc = "traverse"
    /\ variant = "vanilla"
    /\ TraverseContinues /\ ~NothingVisited(tree, node)
    /\ IF \E i \in 1..Len(tree[node].child_nodes) : ucb_raises(tree, Children(tree, node)[i])
       THEN /\ Raise("ValueError")
            /\ UNCHANGED <<node, state>>
       ELSE \E child \in Range(Children(tree, node)) :
               /\ \A c \in Range(Children(tree, node)) :
                     ucb(tree, child, bot_identity) >= ucb(tree, c, bot_identity)
               /\ node' = child
               /\ state' = next_state(state, tree[child].parent_action)
               /\ UNCHANGED <<pc, error>>
    /\ UNCHANGED <<draws, drawn, run, first, board, variant, num_nodes, current_state,
                   bot_identity, tree, iter, won, best_action, rollouts, bp_node, bp_tree>>

\* mcts_vanilla.traverse_nodes, one turn of the loop: descend to the child with
\* the highest UCB value
TraverseUcb ==
    /\ pc = "traverse"
    /\ variant = "vanilla"
    /\ TraverseContinues /\ ~NothingVisited(tree, node)
    /\ IF \E i \in 1..Len(tree[node].child_nodes) : ucb_raises(tree, Children(tree, node)[i])
       THEN /\ Raise("ValueError")
            /\ UNCHANGED <<node, state>>
       ELSE LET child == SelectUcb(tree, node, bot_identity)
            IN  /\ node' = child
                /\ state' = next_state(state, tree[child].parent_action)
                /\ UNCHANGED <<pc, error>>
    /\ UNCHANGED <<draws, drawn, run, first, board, variant, num_nodes,
                   current_state, bot_identity, tree,
                   iter, won, best_action, rollouts, bp_node, bp_tree>>

\* mcts_modified.traverse_nodes, one turn of the loop: descend to the child the
\* roulette wheel selects; child_nodes[None] raises KeyError
TraverseRoulette ==
    /\ pc = "traverse"
    /\ variant = "modified"
    /\ TraverseContinues /\ ~NothingVisited(tree, node)
    /\ LET probabilities == Probabilities(tree, node)
       IN  \E threshold \in Thresholds :
              LET selected_action == roulette_wheel_selection(probabilities, threshold)
              IN  /\ Draw(<<"random", threshold>>)
                  /\ IF selected_action = None
                     THEN /\ Raise("KeyError")
                          /\ UNCHANGED <<node, state>>
                     ELSE LET child == DictGet(tree[node].child_nodes, selected_action)
                          IN  /\ node' = child
                              /\ state' = next_state(state, tree[child].parent_action)
                              /\ UNCHANGED <<pc, error>>
    /\ UNCHANGED <<run, first, board, variant, num_nodes, current_state,
                   bot_identity, tree,
                   iter, won, best_action, rollouts, bp_node, bp_tree>>

\* expand_leaf leaving the action in untried_actions
expand_leaf_keeps_action(b, t, n, s, action) ==
    LET new_state  == next_state(s, action)
        child_node == Len(t) + 1
        parent     == [t[n] EXCEPT !.child_nodes = DictSet(@, action, child_node)]
    IN  [ tree  |-> Append([t EXCEPT ![n] = parent],
                           MCTSNode(n, action, legal_actions(b, new_state))),
          node  |-> child_node,
          state |-> new_state ]

\* expand_leaf counting a visit of the child it constructs
expand_leaf_visits_child(b, t, n, s, action) ==
    LET new_state  == next_state(s, action)
        child_node == Len(t) + 1
        parent     == [t[n] EXCEPT
                          !.untried_actions = ListRemove(@, action),
                          !.child_nodes = DictSet(@, action, child_node)]
    IN  [ tree  |-> Append([t EXCEPT ![n] = parent],
                           [MCTSNode(n, action, legal_actions(b, new_state))
                               EXCEPT !.visits = 1]),
          node  |-> child_node,
          state |-> new_state ]

\* expand_leaf constructing the child with parent=None
expand_leaf_orphan(b, t, n, s, action) ==
    LET new_state  == next_state(s, action)
        child_node == Len(t) + 1
        parent     == [t[n] EXCEPT
                          !.untried_actions = ListRemove(@, action),
                          !.child_nodes = DictSet(@, action, child_node)]
    IN  [ tree  |-> Append([t EXCEPT ![n] = parent],
                           MCTSNode(None, action, legal_actions(b, new_state))),
          node  |-> child_node,
          state |-> new_state ]

\* expand_leaf on (t, n, s) with the action choice() draws: the new tree, the
\* node and the state it returns
expand_leaf(b, t, n, s, action) ==
    LET new_state  == next_state(s, action)
        child_node == Len(t) + 1
        parent     == [t[n] EXCEPT
                          !.untried_actions = ListRemove(@, action),
                          !.child_nodes = DictSet(@, action, child_node)]
    IN  [ tree  |-> Append([t EXCEPT ![n] = parent],
                           MCTSNode(n, action, legal_actions(b, new_state))),
          node  |-> child_node,
          state |-> new_state ]

\* think: node, state = expand_leaf(node, board, state), then the call of rollout
Expand ==
    /\ pc = "expand"
    /\ IF tree[node].untried_actions # <<>>
       THEN \E i \in 1..Len(tree[node].untried_actions) :
               LET r == expand_leaf(board, tree, node, state, tree[node].untried_actions[i])
               IN  /\ Draw(<<"choice", i>>)
                   /\ tree' = r.tree
                   /\ node' = r.node
                   /\ state' = r.state
       ELSE UNCHANGED <<tree, node, state, draws, drawn>>
    /\ rollouts' = rollouts + 1
    /\ pc' = "rollout"
    /\ UNCHANGED <<run, first, board, variant, num_nodes, current_state,
                   bot_identity, iter,
                   won, best_action, error, bp_node, bp_tree>>

\* rollout passing the turn when there is no legal action
RolloutStepPasses ==
    /\ pc = "rollout"
    /\ ~is_ended(state)
    /\ LET actions == legal_actions(board, state)
       IN  IF actions = <<>>
           THEN state' = [state EXCEPT !.player = 3 - @] /\ UNCHANGED <<draws, drawn>>
           ELSE \E i \in 1..Len(actions) :
                   state' = next_state(state, actions[i]) /\ Draw(<<"choice", i>>)
    /\ UNCHANGED <<run, first, board, variant, num_nodes, current_state,
                   bot_identity, tree,
                   iter, node, won, best_action, rollouts, bp_node, bp_tree, pc, error>>

\* rollout, one turn of the loop: a random legal action; choice([]) raises
\* IndexError
RolloutStep ==
    /\ pc = "rollout"
    /\ ~is_ended(state)
    /\ LET actions == legal_actions(board, state)
       IN  IF actions = <<>>
           THEN /\ Raise("IndexError")
                /\ UNCHANGED <<state, draws, drawn>>
           ELSE /\ \E i \in 1..Len(actions) :
                     state' = next_state(state, actions[i]) /\ Draw(<<"choice", i>>)
                /\ UNCHANGED <<pc, error>>
    /\ UNCHANGED <<run, first, board, variant, num_nodes, current_state,
                   bot_identity, tree,
                   iter, node, won, best_action, rollouts, bp_node, bp_tree>>

\* rollout returning wherever it stands
RolloutReturnAnywhere ==
    /\ pc = "rollout"
    /\ IF points_values(state) = <<>>
       THEN /\ Raise("AssertionError")
            /\ UNCHANGED <<won, bp_node, bp_tree>>
       ELSE /\ won' = is_win(state, bot_identity)
            /\ bp_node' = node
            /\ bp_tree' = tree
            /\ pc' = "backprop_visits"
            /\ UNCHANGED error
    /\ UNCHANGED <<draws, drawn, run, first, board, variant, num_nodes,
                   current_state, bot_identity, tree,
                   iter, node, state, best_action, rollouts>>

\* think calling backpropagate(node.parent, won)
RolloutReturnFromParent ==
    /\ pc = "rollout"
    /\ is_ended(state)
    /\ won' = is_win(state, bot_identity)
    /\ node' = tree[node].parent
    /\ bp_node' = tree[node].parent
    /\ bp_tree' = tree
    /\ pc' = "backprop_visits"
    /\ UNCHANGED <<draws, drawn, run, first, board, variant, num_nodes,
                   current_state, bot_identity, tree, iter, state, best_action,
                   rollouts, error>>

\* rollout returns the ended state; won = is_win(board, result_state,
\* bot_identity), whose assert fails on a state that has no points_values;
\* then the call backpropagate(node, won)
RolloutReturn ==
    /\ pc = "rollout"
    /\ is_ended(state)
    /\ IF points_values(state) = <<>>
       THEN /\ Raise("AssertionError")
            /\ UNCHANGED <<won, bp_node, bp_tree>>
       ELSE /\ won' = is_win(state, bot_identity)
            /\ bp_node' = node
            /\ bp_tree' = tree
            /\ pc' = "backprop_visits"
            /\ UNCHANGED error
    /\ UNCHANGED <<draws, drawn, run, first, board, variant, num_nodes,
                   current_state, bot_identity, tree,
                   iter, node, state, best_action, rollouts>>

\* backpropagate counting the visit only in the branch where the bot lost
BackpropVisitsUnlessWon ==
    /\ pc = "backprop_visits"
    /\ IF node = None
       THEN /\ pc' = "loop"
            /\ UNCHANGED tree
       ELSE /\ tree' = IF won THEN tree ELSE [tree EXCEPT ![node].visits = @ + 1]
            /\ pc' = "backprop_wins"
    /\ UNCHANGED <<draws, drawn, run, first, board, variant, num_nodes,
                   current_state, bot_identity, iter,
                   node, state, won, best_action, error, rollouts, bp_node, bp_tree>>

\* backpropagate stopping below the root: while node.parent is not None
BackpropVisitsBelowRoot ==
    /\ pc = "backprop_visits"
    /\ IF node = None \/ tree[node].parent = None
       THEN /\ pc' = "loop"
            /\ UNCHANGED tree
       ELSE /\ tree' = [tree EXCEPT ![node].visits = @ + 1]
            /\ pc' = "backprop_wins"
    /\ UNCHANGED <<draws, drawn, run, first, board, variant, num_nodes,
                   current_state, bot_identity, iter,
                   node, state, won, best_action, error, rollouts, bp_node, bp_tree>>

\* backpropagate: while node is not None: node.visits += 1
BackpropVisits ==
    /\ pc = "backprop_visits"
    /\ IF node = None
       THEN /\ pc' = "loop"
            /\ UNCHANGED tree
       ELSE /\ tree' = [tree EXCEPT ![node].visits = @ + 1]
            /\ pc' = "backprop_wins"
    /\ UNCHANGED <<draws, drawn, run, first, board, variant, num_nodes,
                   current_state, bot_identity, iter,
                   node, state, won, best_action, error, rollouts, bp_node, bp_tree>>

\* backpropagate: if won: node.wins += 1; node = node.parent
BackpropWins ==
    /\ pc = "backprop_wins"
    /\ tree' = IF won THEN [tree EXCEPT ![node].wins = @ + 1] ELSE tree
    /\ node' = tree[node].parent
    /\ pc' = "backprop_visits"
    /\ UNCHANGED <<draws, drawn, run, first, board, variant, num_nodes,
                   current_state, bot_identity, iter,
                   state, won, best_action, error, rollouts, bp_node, bp_tree>>

\* think returning the parent_action of the node constructed last
ExtractLastAction ==
    /\ pc = "extract"
    /\ best_action' = tree[Len(tree)].parent_action
    /\ pc' = "done"
    /\ UNCHANGED <<draws, drawn, run, first, board, variant, num_nodes,
                   current_state, bot_identity, tree, iter, node, state, won,
                   error, rollouts, bp_node, bp_tree>>

\* best_action = get_best_action(root_node); return best_action
Extract ==
    /\ pc = "extract"
    /\ best_action' = get_best_action(tree, root_node)
    /\ pc' = "done"
    /\ UNCHANGED <<draws, drawn, run, first, board, variant, num_nodes,
                   current_state, bot_identity, tree,
                   iter, node, state, won, error, rollouts, bp_node, bp_tree>>

Next ==
    \/ LoopHead
    \/ TraverseReturn
    \/ TraverseUcb
    \/ TraverseRoulette
    \/ Expand
    \/ RolloutStep
    \/ RolloutReturn
    \/ BackpropVisits
    \/ BackpropWins
    \/ Extract

Spec == Init /\ [][Next]_vars

-----------------------------------------------------------------------------
(***************************************************************************)
(* traverse_nodes on its own: applied once to a root all of whose actions  *)
(* have been expanded, for every combination of the children's counters    *)
(* up to MaxVisits (the counters a search has produced need not be the     *)
(* only ones the function is called with).                                 *)
(***************************************************************************)

\* boards with one to four actions
TraverseBoards == {[width |-> w, legalAtEnd |-> FALSE, emptyAt |-> -1, narrowAt |-> -1] : w \in 1..4}

\* the counters of one child
Counters == {c \in [visits : 0..MaxVisits, wins : 0..MaxVisits] : c.wins <= c.visits}

\* a root whose children, one per action, have the given counters
TraverseTree(b, s, counters) ==
    <<[ parent          |-> None,
        parent_action   |-> None,
        child_nodes     |-> [a \in 1..Len(counters) |-> <<a, a + 1>>],
        untried_actions |-> <<>>,
        wins            |-> SumSeq([a \in 1..Len(counters) |-> counters[a].wins]),
        visits          |-> SumSeq([a \in 1..Len(counters) |-> counters[a].visits]) ]>>
    \o [a \in 1..Len(counters) |->
          [ parent          |-> root_node,
            parent_action   |-> a,
            child_nodes     |-> <<>>,
            untried_actions |-> legal_actions(b, next_state(s, a)),
            wins            |-> counters[a].wins,
            visits          |-> counters[a].visits ]]

\* children with the given visits and no wins
Unwon(visits) == [a \in 1..Len(visits) |-> [visits |-> visits[a], wins |-> 0]]

\* the counters traverse_nodes is applied to: every combination for the
\* confidence bound; for the roulette wheel the visits alone matter, and the
\* visit counts 10, 30, 60 and 1, 4, 1, 1 are added
TraverseInputs(v, b) ==
    IF v = "vanilla" THEN [1..b.width -> Counters]
    ELSE {c \in [1..b.width -> Counters] : \A a \in 1..b.width : c[a].wins = 0}
         \cup {Unwon(x) : x \in {y \in {<<10, 30, 60>>, <<1, 4, 1, 1>>} : Len(y) = b.width}}

TraverseInit ==
    /\ board \in TraverseBoards
    /\ variant \in Variants
    /\ num_nodes = 1
    /\ current_state \in [total : {0}, player : Players]
    /\ bot_identity = current_player(current_state)
    /\ \E counters \in TraverseInputs(variant, board) :
          tree = TraverseTree(board, current_state, counters)
    /\ iter = 1
    /\ node = root_node
    /\ state = current_state
    /\ won = FALSE
    /\ best_action = None
    /\ pc = "traverse"
    /\ error = ""
    /\ rollouts = 0
    /\ bp_node = None
    /\ bp_tree = <<>>
    /\ SingleRun

TraverseNext ==
    \/ TraverseReturn
    \/ TraverseUcb
    \/ TraverseRoulette

TraverseSpec == TraverseInit /\ [][TraverseNext]_vars

-----------------------------------------------------------------------------
(***************************************************************************)
(* think on a board that keeps its contract and has four actions, with a   *)
(* budget that lets the root's four children collect different visits.     *)
(***************************************************************************)

WideBoard == [width |-> 4, legalAtEnd |-> FALSE, emptyAt |-> -1, narrowAt |-> -1]

WideInit ==
    /\ board = WideBoard
    /\ variant \in Variants
    /\ num_nodes = WideBudget
    /\ current_state = [total |-> 0, player |-> 1]
    /\ bot_identity = current_player(current_state)
    /\ tree = <<MCTSNode(None, None, legal_actions(board, current_state))>>
    /\ iter = 0
    /\ node = None
    /\ state = current_state
    /\ won = FALSE
    /\ best_action = None
    /\ pc = "loop"
    /\ error = ""
    /\ rollouts = 0
    /\ bp_node = None
    /\ bp_tree = <<>>
    /\ SingleRun

WideSpec == WideInit /\ [][Next]_vars

-----------------------------------------------------------------------------
(***************************************************************************)
(* think called twice with the same board, the same current_state and the  *)
(* same num_nodes: the first call records what choice() and random()       *)
(* return, the second call gets the same values in the same order (the     *)
(* same seed).                                                             *)
(***************************************************************************)

TwinInit ==
    /\ board \in Boards
    /\ variant \in Variants
    /\ num_nodes \in 0..TwinBudget
    /\ current_state \in RootStates
    /\ bot_identity = current_player(current_state)
    /\ tree = <<MCTSNode(None, None, legal_actions(board, current_state))>>
    /\ iter = 0
    /\ node = None
    /\ state = current_state
    /\ won = FALSE
    /\ best_action = None
    /\ pc = "loop"
    /\ error = ""
    /\ rollouts = 0
    /\ bp_node = None
    /\ bp_tree = <<>>
    /\ run = 1
    /\ draws = <<>>
    /\ drawn = 0
    /\ first = <<>>

\* the first call has returned or raised: think is called again
SecondCall ==
    /\ run = 1
    /\ pc \in {"done", "error"}
    /\ first' = [tree |-> tree, best_action |-> best_action, pc |-> pc, error |-> error]
    /\ run' = 2
    /\ drawn' = 0
    /\ bot_identity' = current_player(current_state)
    /\ tree' = <<MCTSNode(None, None, legal_actions(board, current_state))>>
    /\ iter' = 0
    /\ node' = None
    /\ state' = current_state
    /\ won' = FALSE
    /\ best_action' = None
    /\ pc' = "loop"
    /\ error' = ""
    /\ rollouts' = 0
    /\ bp_node' = None
    /\ bp_tree' = <<>>
    /\ UNCHANGED <<board, variant, num_nodes, current_state, draws>>

TwinNext ==
    \/ LoopHead
    \/ TraverseReturn
    \/ TraverseUcb
    \/ TraverseRoulette
    \/ Expand
    \/ RolloutStep
    \/ RolloutReturn
    \/ BackpropVisits
    \/ BackpropWins
    \/ Extract
    \/ SecondCall

TwinSpec == TwinInit /\ [][TwinNext]_vars

-----------------------------------------------------------------------------
(* What the claims speak of *)

Nodes == 1..Len(tree)

\* n and its ancestors, through the parent links
RECURSIVE Ancestors(_, _)
Ancestors(t, n) == IF n = None THEN {} ELSE {n} \cup Ancestors(t, t[n].parent)

\* the game state a node stands for: the root's state with the parent_action
\* values on the way down applied
RECURSIVE NodeState(_, _)
NodeState(t, n) ==
    IF t[n].parent = None THEN current_state
    ELSE next_state(NodeState(t, t[n].parent), t[n].parent_action)

RootChildren == Range(Children(tree, root_node))

\* a call of backpropagate has just returned
BackpropDone == pc = "loop" /\ iter > 0

-----------------------------------------------------------------------------
\* C1: when think has returned and the root has a child, the returned action is
\* a key of the root's child_nodes and no root child has more visits than the
\* child under that key.
C1_BestActionMostVisited ==
    (pc = "done" /\ tree[root_node].child_nodes # <<>>) =>
        /\ best_action \in Range(Keys(tree, root_node))
        /\ \A c \in RootChildren :
              tree[DictGet(tree[root_node].child_nodes, best_action)].visits >= tree[c].visits

\* think has returned the most visited child although another child has more wins
C1_Witness ==
    /\ pc = "done"
    /\ tree[root_node].child_nodes # <<>>
    /\ \E c \in RootChildren :
          LET best == DictGet(tree[root_node].child_nodes, best_action)
          IN  tree[c].wins > tree[best].wins /\ tree[c].visits < tree[best].visits

\* C2: in every state of the search, also between the two increments of
\* backpropagate, every node has wins <= visits.
C2_WinsAtMostVisits == \A n \in Nodes : tree[n].wins <= tree[n].visits

\* backpropagate stands between node.visits += 1 and node.wins += 1 of a won game
C2_Witness ==
    /\ pc = "backprop_wins"
    /\ won
    /\ tree[node].visits = tree[node].wins + 1
    /\ tree[node].parent # None

\* C3: when backpropagate(node, won) has returned, visits is one more than
\* before at node and at each of its ancestors, the root among them, and the
\* same as before at every other node.
C3_BackpropagateVisits ==
    BackpropDone =>
        /\ Len(tree) = Len(bp_tree)
        /\ root_node \in Ancestors(tree, bp_node)
        /\ \A n \in Nodes :
              tree[n].visits = bp_tree[n].visits
                               + (IF n \in Ancestors(tree, bp_node) THEN 1 ELSE 0)

\* backpropagate has returned from a path of three nodes in a tree with nodes
\* off the path
C3_Witness ==
    /\ BackpropDone
    /\ Cardinality(Ancestors(tree, bp_node)) >= 3
    /\ \E n \in Nodes : n \notin Ancestors(tree, bp_node) /\ tree[n].visits > 0

\* C4: the win flag is points_values(result_state)[identity acting at the
\* root] = 1; when backpropagate has returned, wins is one more than before at
\* every node of the path if the flag is set, and unchanged everywhere if not.
C4_UniformWins ==
    BackpropDone =>
        LET flag == points_values(state)[current_player(current_state)] = 1
        IN  /\ won = flag
            /\ \A n \in Nodes :
                  tree[n].wins = bp_tree[n].wins
                                 + (IF flag /\ n \in Ancestors(tree, bp_node) THEN 1 ELSE 0)

\* a won game has been recorded along a path on which both players move
C4_Witness ==
    /\ BackpropDone
    /\ won
    /\ \E m, n \in Ancestors(tree, bp_node) :
          /\ current_player(NodeState(tree, m)) # current_player(NodeState(tree, n))
          /\ tree[m].wins = bp_tree[m].wins + 1
          /\ tree[n].wins = bp_tree[n].wins + 1

\* a step of confidence-bound selection: traverse_nodes descends from node to
\* node'
UcbSelects == pc = "traverse" /\ variant = "vanilla" /\ pc' = "traverse" /\ node' # node

\* C5: confidence-bound selection adds the win rate at a node where the bot is
\* to move and subtracts it at a node where the opponent is to move: among
\* children with equal visits it descends to one with the most wins at the
\* former and to one with the fewest wins at the latter.
C5_SignFollowsMover ==
    [][UcbSelects =>
          \A c \in Range(Children(tree, node)) :
             tree[c].visits = tree[node'].visits =>
                IF current_player(state) = bot_identity
                THEN tree[node'].wins >= tree[c].wins
                ELSE tree[node'].wins <= tree[c].wins]_vars

\* C6: on an ended root state rollout is never called and think returns None,
\* whatever legal_actions yields there and whatever the budget.
C6_EndedRootNoAction ==
    is_ended(current_state) =>
        /\ rollouts = 0
        /\ pc = "done" => best_action = None

\* C7: with num_nodes = 0 on a running root state, think returns None and the
\* root is as constructed: no children, visits 0, wins 0, every legal action
\* untried.
C7_NoBudgetNoAction ==
    (pc = "done" /\ num_nodes = 0 /\ ~is_ended(current_state)) =>
        /\ best_action = None
        /\ Len(tree) = 1
        /\ tree[root_node].child_nodes = <<>>
        /\ tree[root_node].visits = 0
        /\ tree[root_node].wins = 0
        /\ tree[root_node].untried_actions = legal_actions(board, current_state)

\* think has returned with budget 0 on a running state that has legal actions
C7_Witness ==
    /\ pc = "done"
    /\ num_nodes = 0
    /\ ~is_ended(current_state)
    /\ legal_actions(board, current_state) # <<>>
    /\ iter = 0

\* C8: when confidence-bound selection descends from a node one of whose
\* children is unvisited, the child it descends to is unvisited.
C8_UnvisitedFirst ==
    [][(UcbSelects /\ \E c \in Range(Children(tree, node)) : tree[c].visits = 0)
          => tree[node'].visits = 0]_vars

\* selection has descended to an unvisited child that comes after a visited one
C8_Witness ==
    /\ pc = "traverse"
    /\ variant = "vanilla"
    /\ node # root_node
    /\ tree[node].parent = root_node
    /\ tree[node].visits = 0
    /\ \E c \in RootChildren : c < node /\ tree[c].visits > 0

\* the probabilities of children visited 10, 30 and 60 times
Probabilities_10_30_60 ==
    Probabilities(
        TraverseTree([width |-> 3, legalAtEnd |-> FALSE, emptyAt |-> -1, narrowAt |-> -1],
                     [total |-> 0, player |-> 1],
                     Unwon(<<10, 30, 60>>)),
        root_node)

\* C9: the roulette wheel always returns an action (the lookup
\* child_nodes[selected_action] never gets None); for visits 10, 30, 60 a draw
\* of 0.05 selects the first child and a draw of 0.95 the third.
C9_RouletteReturnsAction ==
    /\ roulette_wheel_selection(Probabilities_10_30_60, RandomAt(1, 20)) = 1
    /\ roulette_wheel_selection(Probabilities_10_30_60, RandomAt(19, 20)) = 3
    /\ error # "KeyError"

\* C10: at every node untried_actions and the keys of child_nodes are disjoint
\* and together are the legal actions of the node's state, none listed twice.
C10_UntriedIsLegalMinusExpanded ==
    \A n \in Nodes :
        LET untried == tree[n].untried_actions
            legal   == legal_actions(board, NodeState(tree, n))
        IN  /\ Range(untried) \cap Range(Keys(tree, n)) = {}
            /\ Range(untried) \cup Range(Keys(tree, n)) = Range(legal)
            /\ Len(untried) + Len(tree[n].child_nodes) = Len(legal)

\* a node below the root has one action expanded and one still untried
C10_Witness ==
    \E n \in Nodes :
        /\ n # root_node
        /\ tree[n].untried_actions # <<>>
        /\ tree[n].child_nodes # <<>>

\* C11: the root has parent None and parent_action None; every other node was
\* constructed after its parent, is the value its parent's child_nodes holds
\* under its parent_action (and under no other key), and reaches the root
\* through the parent links.
C11_TreeConsistent ==
    /\ tree[root_node].parent = None
    /\ tree[root_node].parent_action = None
    /\ \A n \in Nodes \ {root_node} :
          LET p == tree[n].parent
          IN  /\ p \in 1..(n - 1)
              /\ \A i \in 1..Len(tree[p].child_nodes) :
                    (tree[p].child_nodes[i][2] = n) = (tree[p].child_nodes[i][1] = tree[n].parent_action)
              /\ tree[n].parent_action \in Range(Keys(tree, p))
              /\ root_node \in Ancestors(tree, n)

\* the tree is three levels deep and a node below the root has two children
C11_Witness ==
    \E n \in Nodes :
        /\ n # root_node
        /\ Len(tree[n].child_nodes) = 2
        /\ \E c \in Nodes : tree[c].parent = n /\ Cardinality(Ancestors(tree, c)) = 3

\* C12: rollout hands is_win an ended state: the assertion of is_win never
\* fails, and while backpropagate runs state is the ended result_state.
C12_IsWinOnEndedState ==
    /\ error # "AssertionError"
    /\ pc \in {"backprop_visits", "backprop_wins"} =>
          is_ended(state) /\ points_values(state) # <<>>

\* is_win has been evaluated on the state a rollout of at least one move ended in
C12_Witness ==
    /\ pc = "backprop_visits"
    /\ node = bp_node
    /\ ~is_ended(NodeState(tree, node))
    /\ is_ended(state)

\* a running state without a legal action
DeadState(s) == ~is_ended(s) /\ legal_actions(board, s) = <<>>

\* C13: once an iteration stands on a running state without a legal action
\* (the root's, an expanded node's, or one a rollout came to), it goes on to
\* the call of choice in rollout with that state, which raises: the iteration
\* is never completed, the tree is not touched again and no action is returned.
C13_NoLegalActionIsFatal ==
    [][/\ (iter > 0 /\ \E n \in Nodes : DeadState(NodeState(tree, n))) =>
             DeadState(state) /\ pc \in {"traverse", "expand", "rollout", "error"}
       /\ (iter > 0 /\ DeadState(state) /\ pc # "error") =>
             /\ iter' = iter
             /\ tree' = tree
             /\ best_action' = None
             /\ state' = state
             /\ \/ pc = "traverse" /\ pc' = "expand"
                \/ pc = "expand" /\ pc' = "rollout"
                \/ pc = "rollout" /\ pc' = "error" /\ error' = "IndexError"]_vars

\* think has ended in IndexError on the state of a node it expanded
C13_Witness ==
    /\ pc = "error"
    /\ error = "IndexError"
    /\ node # root_node
    /\ DeadState(NodeState(tree, node))

\* the board keeps the contract of legal_actions: some action on every running
\* state (on every board here a move raises the total, so every game ends)
ContractKept(b) == \A s \in States : ~is_ended(s) => legal_actions(b, s) # <<>>

\* the number of moves a loop over states can still make from s: a move raises
\* the total, and no state think comes to has a total above Target + 2 * width
MovesLeft(s) == Target + 2 * board.width - s.total

\* the number of nodes from n up to the root (0 for None)
Depth(n) == Cardinality(Ancestors(tree, n))

\* the steps one iteration can still take from its position: backpropagate
\* climbs, the rollout loop and the traversal loop move on in the game
StepsLeftInIteration ==
    LET climb == 2 * (Target + 2) + 1
        play  == Target + 2 * board.width
    IN  CASE pc = "loop"            -> 0
          [] pc = "backprop_visits" -> 2 * Depth(node) + 1
          [] pc = "backprop_wins"   -> 2 * Depth(node)
          [] pc = "rollout"         -> climb + 1 + MovesLeft(state)
          [] pc = "expand"          -> climb + play + 2
          [] pc = "traverse"        -> climb + play + 3 + MovesLeft(state)
          [] OTHER                  -> 0

\* the steps think can still take: a bound that every step lowers
StepsLeft ==
    LET iteration == 2 * (Target + 2) + 2 * (Target + 2 * board.width) + 5
    IN  CASE pc = "done"    -> 0
          [] pc = "extract" -> 1
          [] pc = "error"   -> 0
          [] OTHER          -> (num_nodes - iter) * iteration + StepsLeftInIteration + 2

\* C14: on a board that keeps its contract think terminates: every step of
\* think (of the traversal loop, of the rollout loop, of backpropagate, of the
\* for loop) lowers a bound that stays at or above 0, no step ends think in an
\* exception, and think returns after exactly num_nodes iterations, each with
\* one rollout.
C14_ThinkTerminates ==
    [][ContractKept(board) =>
          /\ StepsLeft' < StepsLeft
          /\ StepsLeft' >= 0
          /\ pc' # "error"
          /\ pc' = "done" => (pc = "extract" /\ iter' = num_nodes /\ rollouts' = num_nodes)]_vars

\* the next random draw of the second call is one the first call made here: a
\* choice() among the same number of actions, or a random()
NextDrawIs(kind, options) ==
    /\ drawn < Len(draws)
    /\ draws[drawn + 1][1] = kind
    /\ kind = "choice" => draws[drawn + 1][2] \in 1..options

C16_TraverseReturnsLeaf ==
    (pc = "expand" /\ ContractKept(board)) =>
        /\ state = NodeState(tree, node)
        /\ is_ended(state) \/ tree[node].untried_actions # <<>>

\* traverse_nodes has descended two levels and returned a node with an untried
\* action
C16_Witness ==
    /\ pc = "expand"
    /\ ContractKept(board)
    /\ Depth(node) = 3
    /\ ~is_ended(state)
    /\ tree[node].untried_actions # <<>>

C18_NoChildBelowEndedState ==
    \A n \in Nodes : is_ended(NodeState(tree, n)) => tree[n].child_nodes = <<>>

\* C19: where traverse_nodes evaluates its selection formula (the loop goes on
\* and some child has been visited), the node and each of its children have
\* been visited, and log(0) is never taken; between iterations every node has
\* been visited, except the root before the first iteration.
C19_SelectionOnVisitedNodes ==
    /\ error # "ValueError"
    /\ (pc = "traverse" /\ TraverseContinues /\ ~NothingVisited(tree, node)) =>
          /\ tree[node].visits >= 1
          /\ \A c \in Range(Children(tree, node)) : tree[c].visits >= 1
    /\ (pc = "loop" /\ iter > 0) => \A n \in Nodes : tree[n].visits >= 1

\* the selection formula is about to be evaluated at a node below the root
C19_Witness ==
    /\ pc = "traverse"
    /\ TraverseContinues
    /\ ~NothingVisited(tree, node)
    /\ node # root_node
    /\ Len(tree[node].child_nodes) = 2

\* C20: when think returns from a search of at least one iteration on a running
\* root state with legal actions, what it returns is one of the legal actions
\* of the root state (so not None).
C20_ReturnsLegalRootAction ==
    (/\ pc = "done"
     /\ num_nodes >= 1
     /\ ~is_ended(current_state)
     /\ legal_actions(board, current_state) # <<>>) =>
        best_action \in Range(legal_actions(board, current_state))

\* think has returned from a search that expanded, below the root, an action
\* that is not legal in the root state
C20_Witness ==
    /\ pc = "done"
    /\ num_nodes >= 1
    /\ ~is_ended(current_state)
    /\ best_action # None
    /\ \E n \in Nodes \ {root_node} :
          tree[n].parent_action \notin Range(legal_actions(board, current_state))

====
